---- MODULE Spec2Model ----
(***************************************************************************)
(* LinkedInProfileScraper: browser session lifecycle (setup / close), page *)
(* provisioning (createPage), login verification (checkIfLoggedIn) and the *)
(* sequential-then-concurrent extraction protocol (run).                   *)
(*                                                                         *)
(* One step of the model is one turn of the JavaScript event loop: the     *)
(* completion of one awaited external call (puppeteer, tree-kill) together *)
(* with all the synchronous code and microtask continuations that follow   *)
(* it, up to the point where the next external call has been issued.       *)
(* The outcome of every external call is an input, drawn with \E.          *)
(***************************************************************************)
EXTENDS Integers, Sequences, FiniteSets, TLC

\* ------------------------------------------------------------------ bounds
MaxOps == 3       \* public calls (setup / run / checkIfLoggedIn / close)
MaxLaunch == 2    \* browser processes puppeteer.launch is asked for
MaxStray == 0     \* background activities of earlier calls (detail tasks of
                  \* a failed run, close() bodies nobody awaits, treeKill
                  \* callbacks) still pending when the caller issues its
                  \* next public call

\* --------------------------------------------------------------- constants
Kinds == {"exp", "edu", "skills"}

\* Errors.  The code tells no rejection of a puppeteer call from another
\* (it only rethrows), so they share one name; the rejection of
\* browser.close() inside close() is kept apart because close() rethrows it
\* in place of the error its caller had caught.
NoErr == "none"
ValidationErrors == {"BrowserNotSet", "NoProfileUrl", "NotLinkedinUrl"}

\* Strings are sequences of characters, so that endsWith / includes are
\* computed, not assumed.
LoginSuffix == <<"/", "l", "o", "g", "i", "n">>
LinkedinNeedle == <<"l", "i", "n", "k", "e", "d", "i", "n", ".", "c", "o", "m", "/">>

\* URLs the login navigation can end on (host omitted, it is the same in all).
UrlLogin == <<"/", "l", "o", "g", "i", "n">>
UrlFeed == <<"/", "f", "e", "e", "d", "/">>
UrlUasLogin == <<"/", "u", "a", "s", "/", "l", "o", "g", "i", "n">>
UrlLoginQuery == <<"/", "l", "o", "g", "i", "n", "?", "r">>
LandingUrls == {UrlLogin, UrlFeed, UrlUasLogin, UrlLoginQuery}

\* profileUrl arguments of run() (scheme omitted).
UrlEmpty == <<>>
UrlProfile ==
    <<"l", "i", "n", "k", "e", "d", "i", "n", ".", "c", "o", "m", "/", "i", "n", "/", "x">>
UrlOther == <<"e", "x", ".", "c", "o", "m", "/", "i", "n", "/", "x">>
UrlOtherWithQuery ==
    <<"e", "x", ".", "c", "o", "m", "/", "?",
      "l", "i", "n", "k", "e", "d", "i", "n", ".", "c", "o", "m", "/">>
UrlWww ==
    <<"w", "w", "w", ".", "l", "i", "n", "k", "e", "d", "i", "n", ".", "c",
      "o", "m", "/", "i", "n", "/", "x">>
UrlLookalike ==
    <<"n", "o", "t", "l", "i", "n", "k", "e", "d", "i", "n", ".", "c", "o",
      "m", "/", "i", "n", "/", "x">>
ProfileUrls ==
    {UrlEmpty, UrlProfile, UrlWww, UrlOther, UrlOtherWithQuery, UrlLookalike}

\* ----------------------------------------------------------- string helpers
\* String.prototype.endsWith
EndsWith(s, suf) ==
    /\ Len(suf) <= Len(s)
    /\ SubSeq(s, Len(s) - Len(suf) + 1, Len(s)) = suf

\* String.prototype.includes
Includes(s, sub) ==
    \E i \in 1..(Len(s) - Len(sub) + 1) : SubSeq(s, i, i + Len(sub) - 1) = sub

\* ------------------------------------------------------------------- state
VARIABLES
    keepAlive,  \* this.options.keepAlive, fixed by the constructor
    browser,    \* this.browser: 0 is null, otherwise the id of a launched browser
    nLaunched,  \* browser processes started so far; ids are 1..nLaunched
    alive,      \* alive[b]: the OS process of browser b is running
    pages,      \* open pages: [n, who, b] = page of browser b created during
                \* call n and held by `who`; who = "nobody" once its holder
                \* has given up without closing it
    main,       \* the public call in progress (the caller awaits each call)
    tasks,      \* tasks[n][k]: detail task k of run n (getExperiences, ...)
    kills,      \* <<b, p>> \in kills: a treeKill on the process of browser b is
                \* pending; p is the state of the close() promise that issued
                \* it (calls on the same process with the same p are alike)
    detached,   \* detached[b]: browser.close() calls on b issued by a close()
                \* body that goes on after its promise was rejected
    nOps,       \* public calls issued so far; the call in progress is call nOps
    last,       \* what the caller got from the most recent public call
    expired,    \* some setup() of this instance has thrown SessionExpired
    okRuns,     \* run() calls that returned an aggregate so far
    unit        \* [f, in, out]: a function of the scraper applied on its own
                \* to the input `in` with the result `out` (request handler,
                \* constructor, guards of run, options of a navigation)

vars == <<keepAlive, browser, nLaunched, alive, pages, main, tasks, kills,
          detached, nOps, last, expired, okRuns, unit>>

Browsers == 1..MaxLaunch
Calls == 1..MaxOps
PromiseStates == {"fulfilled", "rejected"}

\* cfg: while pc = "configure", the index in ConfigureSteps of the await the
\* thread is suspended at; 0 otherwise.
IdleMain ==
    [op |-> "none", pc |-> "idle", ctx |-> "none", err |-> NoErr, tb |-> 0,
     url |-> <<>>, term |-> FALSE, done |-> <<>>, cfg |-> 0]

IdleTask == [pc |-> "idle", tb |-> 0, err |-> NoErr, cfg |-> 0]

NoCall == [op |-> "none", status |-> "none", err |-> NoErr, cause |-> NoErr,
           term |-> FALSE, after |-> FALSE]

\* The call with outcome l was a run() refused by one of the two checks on
\* profileUrl (the instance held a browser, or the first guard had thrown).
UrlRejected(l) == l.op = "run" /\ l.cause \in {"NoProfileUrl", "NotLinkedinUrl"}

NoUnit == [f |-> "none", in |-> "none", out |-> "none"]

\* A call is issued; `after` tells that the call before it was a run()
\* refused for its URL.
Pending(op) ==
    [NoCall EXCEPT !.op = op, !.status = "pending", !.after = UrlRejected(last)]

Init ==
    /\ keepAlive \in BOOLEAN
    /\ browser = 0
    /\ nLaunched = 0
    /\ alive = [b \in Browsers |-> FALSE]
    /\ pages = {}
    /\ main = IdleMain
    /\ tasks = [n \in Calls |-> [k \in Kinds |-> IdleTask]]
    /\ kills = {}
    /\ detached = [b \in Browsers |-> 0]
    /\ nOps = 0
    /\ last = NoCall
    /\ expired = FALSE
    /\ okRuns = 0
    /\ unit = NoUnit

\* ----------------------------------------------------------------- helpers
\* The pages that survive the death of browser b.
Die(b, pg) == {p \in pg : p.b # b}

\* The page a thread holds is usable only while its browser process runs.
HasPage(n, who) == \E p \in pages : p.n = n /\ p.who = who

ClosePage(n, who, pg) == {p \in pg : ~(p.n = n /\ p.who = who)}

\* The holder of a page throws without closing it: the page stays open.
Abandon(n, who, pg) ==
    {IF p.n = n /\ p.who = who THEN [p EXCEPT !.who = "nobody"] ELSE p : p \in pg}

\* Variant: the landing URL is searched for "/login" instead of being
\* compared at its end.
IsLoggedInIncludes(url) == ~Includes(url, LoginSuffix)

\* checkIfLoggedIn: const isLoggedIn = !url.endsWith("/login")
IsLoggedIn(url) == ~EndsWith(url, LoginSuffix)

\* run: the two checks on profileUrl, in the order of the code
ValidateUrl(url) ==
    IF url = <<>> THEN "NoProfileUrl"
    ELSE IF ~Includes(url, LinkedinNeedle) THEN "NotLinkedinUrl"
    ELSE NoErr

\* run: the three guards before the try block; NoErr when none throws
RunGuard(url) == IF browser = 0 THEN "BrowserNotSet" ELSE ValidateUrl(url)

\* Variant: the fan-out resolves with the first task that fulfils
\* (Promise.any in place of Promise.all).
AnyFulfilled(ts) == \E k \in Kinds : ts[k].pc = "ok"

\* Promise.all resolves when every task has fulfilled
AllFulfilled(ts) == \A k \in Kinds : ts[k].pc = "ok"

\* Variant: the keepAlive option is ignored.
DisposeAlways == "session"

\* run: what is released after a successful extraction
DisposeMode == IF keepAlive THEN "pageOnly" ELSE "session"

\* Results and rejections of detail tasks that nobody holds any more are
\* dropped when the next public call starts; tasks in flight go on.
Collected(ts) ==
    [n \in Calls |-> [k \in Kinds |->
        IF ts[n][k].pc \in {"ok", "fail"} THEN IdleTask ELSE ts[n][k]]]

\* Detail tasks that have started and not settled.
InFlight(ts) ==
    {x \in Calls \X Kinds : ts[x[1]][x[2]].pc \notin {"idle", "ok", "fail"}}

\* this.browser.process()?.pid: every browser of this class comes from
\* puppeteer.launch, which spawns a child process, so the pid is defined.
HasPid(b) == b \in Browsers

\* ------------------------------------------------- close(): the browser part
\* close(), lines 355-388, once `await this.browser.close()` on browser tb has
\* settled.  `promise` is the state the close() promise ends in when this
\* body falls through to the final `return resolve()`.
\* pg are the open pages at that moment.
\* ok:   the process of tb has exited; this.browser.process()?.pid is read and,
\*       when defined, treeKill is called on it; its callback stays pending.
\* ~ok:  the catch block rejects; the kill is never reached.
CloseBrowserSettled(tb, ok, promise, pg) ==
    IF ok
    THEN /\ alive' = [alive EXCEPT ![tb] = FALSE]
         /\ pages' = Die(tb, pg)
         /\ kills' = IF HasPid(browser)
                     THEN kills \cup {<<browser, promise>>}
                     ELSE kills
    ELSE /\ pages' = pg
         /\ UNCHANGED <<alive, kills>>

\* ------------------------------------------------- control flow of main
\* The public call returns to (or throws at) its caller.
Return(m, status, e, cause) ==
    /\ main' = IdleMain
    /\ last' = [op |-> m.op, status |-> status, err |-> e, cause |-> cause,
                term |-> m.term,
                after |-> IF last.status = "pending" THEN last.after
                          ELSE UrlRejected(last)]
    /\ expired' = (expired \/ (m.op = "setup" /\ e = "SessionExpired"))
    /\ okRuns' = IF m.op = "run" /\ status = "ok" THEN okRuns + 1 ELSE okRuns

Goes(m) ==
    /\ main' = m
    /\ UNCHANGED <<last, expired, okRuns>>

\* Variant: the catch block keeps the browser when keepAlive is set.
CaughtUnlessKeepAlive(m, e) ==
    IF browser = 0 \/ keepAlive
    THEN Return(m, "fail", e, e)
    ELSE Goes([m EXCEPT !.pc = "browserClose", !.ctx = "catch", !.err = e,
                        !.tb = browser, !.url = <<>>])

\* The catch block of setup() and of run(): `await this.close(); throw err`.
\* close() with this.browser null resolves at once.
Caught(m, e) ==
    IF browser = 0
    THEN Return(m, "fail", e, e)
    ELSE Goes([m EXCEPT !.pc = "browserClose", !.ctx = "catch", !.err = e,
                        !.tb = browser, !.url = <<>>])

\* An error e thrown by checkIfLoggedIn or by its createPage: inside setup()
\* and run() it is caught by their catch block; when the caller called
\* checkIfLoggedIn, which has no try block, it reaches the caller as it is.
Propagates(m, e, cause) ==
    IF m.op = "checkIfLoggedIn" THEN Return(m, "fail", e, cause) ELSE Caught(m, e)

\* Variant: the guards of run() are inside its try block, so that a refusal
\* goes through the catch block (close() on the held browser, or an immediate
\* rethrow when there is none).
RefusedInTry(m, v) ==
    IF browser = 0
    THEN Return(m, "fail", v, v)
    ELSE /\ main' = [m EXCEPT !.pc = "browserClose", !.ctx = "catch", !.err = v,
                              !.tb = browser]
         /\ last' = Pending(m.op)
         /\ UNCHANGED <<expired, okRuns>>

\* A guard of run() throws v before the try block: the call rejects at once
\* and no catch block runs.
Refused(m, v) == Return(m, "fail", v, v)

\* Variant: createPage has no catch block of its own; the error goes straight
\* to the catch block of its caller.
ProvisionThrows(m, e) ==
    Goes([m EXCEPT !.pc = "browserClose", !.ctx = "catch", !.err = e,
                   !.tb = browser, !.url = <<>>, !.cfg = 0])

\* The catch block of createPage(): `await this.close(); throw err`.
\* this.browser is not null here (createPage checked it).
ProvisionCaught(m, e) ==
    Goes([m EXCEPT !.pc = "browserClose", !.ctx = "cp", !.err = e,
                   !.tb = browser, !.cfg = 0])

\* run(), lines 500-511, after Promise.all fulfilled: both branches start by
\* closing the primary page.
Dispose(m) == Goes([m EXCEPT !.pc = "closePage"])

\* Activities that go on after the public call that started them returned.
Stray ==
    Cardinality(InFlight(tasks)) + Cardinality(kills)
    + Cardinality({b \in Browsers : detached[b] > 0})

\* ---------------------------------------------------------- public calls
\* The caller awaits each public call before it issues the next one.
CallerReady ==
    /\ main.pc = "idle"
    /\ nOps < MaxOps
    /\ Stray <= MaxStray

\* setup(): runs up to `await puppeteer.launch(...)`.
CallSetup ==
    /\ CallerReady
    /\ nLaunched < MaxLaunch
    /\ nOps' = nOps + 1
    /\ main' = [IdleMain EXCEPT !.op = "setup", !.pc = "launch"]
    /\ last' = Pending("setup")
    /\ UNCHANGED <<expired, okRuns>>
    /\ tasks' = Collected(tasks)
    /\ UNCHANGED <<unit, keepAlive, browser, nLaunched, alive, pages, kills,
                   detached>>

\* run(profileUrl): the three guards, then createPage up to
\* `await this.browser.newPage()`.
CallRun(url) ==
    /\ CallerReady
    /\ nOps' = nOps + 1
    /\ LET m == [IdleMain EXCEPT !.op = "run"]
           v == RunGuard(url)
       IN  IF v # NoErr
           THEN Refused(m, v)
           ELSE /\ main' = [m EXCEPT !.pc = "newPage", !.tb = browser]
                /\ last' = Pending("run")
                /\ UNCHANGED <<expired, okRuns>>
    /\ tasks' = Collected(tasks)
    /\ UNCHANGED <<unit, keepAlive, browser, nLaunched, alive, pages, kills,
                   detached>>

\* checkIfLoggedIn() called by the user (it is a public method): createPage
\* throws at once when this.browser is null, before its try block; otherwise
\* it runs up to `await this.browser.newPage()`.
CallCheckIfLoggedIn ==
    /\ CallerReady
    /\ nOps' = nOps + 1
    /\ LET m == [IdleMain EXCEPT !.op = "checkIfLoggedIn"]
       IN  IF browser = 0
           THEN Return(m, "fail", "PageBrowserNotSet", "PageBrowserNotSet")
           ELSE /\ main' = [m EXCEPT !.pc = "newPage", !.tb = browser]
                /\ last' = Pending("checkIfLoggedIn")
                /\ UNCHANGED <<expired, okRuns>>
    /\ tasks' = Collected(tasks)
    /\ UNCHANGED <<unit, keepAlive, browser, nLaunched, alive, pages, kills,
                   detached>>

\* close() called by the user, without a page.
CallClose ==
    /\ CallerReady
    /\ nOps' = nOps + 1
    /\ LET m == [IdleMain EXCEPT !.op = "close"]
       IN  IF browser = 0
           THEN Return(m, "ok", NoErr, NoErr)
           ELSE /\ main' = [m EXCEPT !.pc = "browserClose", !.ctx = "caller",
                                     !.tb = browser]
                /\ last' = Pending("close")
                /\ UNCHANGED <<expired, okRuns>>
    /\ tasks' = Collected(tasks)
    /\ UNCHANGED <<unit, keepAlive, browser, nLaunched, alive, pages, kills,
                   detached>>

\* ------------------------------------------------------------------ setup
\* puppeteer.launch settles.  On success this.browser is overwritten and
\* checkIfLoggedIn -> createPage runs up to `await this.browser.newPage()`.
LaunchDone(ok) ==
    /\ main.pc = "launch"
    /\ IF ok
       THEN /\ nLaunched' = nLaunched + 1
            /\ browser' = nLaunched + 1
            /\ alive' = [alive EXCEPT ![nLaunched + 1] = TRUE]
            /\ Goes([main EXCEPT !.pc = "newPage", !.tb = nLaunched + 1])
       ELSE /\ Caught(main, "CallFailed")
            /\ UNCHANGED <<nLaunched, browser, alive>>
    /\ UNCHANGED <<unit, keepAlive, pages, tasks, kills, detached, nOps>>

\* ------------------------------------------------------------- createPage
\* The awaits of createPage between newPage and `return page`, in the order
\* of the code (lines 265, 266, 267, 268, 282, 303, 305, 315).
ConfigureSteps ==
    <<"createCDPSession", "setBypassCSP", "Page.enable",
      "Page.setWebLifecycleState", "setRequestInterception", "setUserAgent",
      "setViewport", "setCookie">>

\* this.browser.newPage() settles (createPage called by checkIfLoggedIn or by
\* run for its primary page); createCDPSession is issued.
NewPageDone(ok) ==
    /\ main.pc = "newPage"
    /\ IF ok
       THEN /\ alive[main.tb]
            /\ pages' = pages \cup {[n |-> nOps, who |-> "main", b |-> main.tb]}
            /\ Goes([main EXCEPT !.pc = "configure", !.cfg = 1])
       ELSE /\ ProvisionCaught(main, "CallFailed")
            /\ pages' = pages
    /\ UNCHANGED <<unit, keepAlive, browser, nLaunched, alive, tasks, kills,
                   detached, nOps>>

\* One await of the configuration of the new page settles (ConfigureSteps):
\* the next one is issued; after the last one the page is returned and the
\* caller issues its navigation.  A step that rejects takes createPage to
\* its catch block.
ConfigureDone(ok) ==
    /\ main.pc = "configure"
    /\ IF ok
       THEN /\ HasPage(nOps, "main")
            /\ IF main.cfg < Len(ConfigureSteps)
               THEN Goes([main EXCEPT !.cfg = @ + 1])
               ELSE Goes([main EXCEPT !.pc = "goto", !.cfg = 0])
            /\ pages' = pages
       ELSE /\ ProvisionCaught(main, "CallFailed")
            /\ pages' = Abandon(nOps, "main", pages)
    /\ UNCHANGED <<unit, keepAlive, browser, nLaunched, alive, tasks, kills,
                   detached, nOps>>

\* -------------------------------------------------------- checkIfLoggedIn
\* checkIfLoggedIn runs inside setup() or is called by the user.
LoginOps == {"setup", "checkIfLoggedIn"}

\* page.goto(login) settles: the landing URL is read, isLoggedIn is computed
\* from it and `await page.close()` is issued.  A failed navigation is thrown
\* by checkIfLoggedIn with its page open.
LoginGotoDone(ok, url) ==
    /\ main.op \in LoginOps
    /\ main.pc = "goto"
    /\ IF ok
       THEN /\ HasPage(nOps, "main")
            /\ Goes([main EXCEPT !.pc = "closePage", !.url = url])
            /\ pages' = pages
       ELSE /\ url = UrlLogin
            /\ Propagates(main, "CallFailed", "CallFailed")
            /\ pages' = Abandon(nOps, "main", pages)
    /\ UNCHANGED <<unit, keepAlive, browser, nLaunched, alive, tasks, kills,
                   detached, nOps>>

\* page.close() of checkIfLoggedIn settles; then the verdict.
LoginClosePageDone(ok) ==
    /\ main.op \in LoginOps
    /\ main.pc = "closePage"
    /\ IF ok
       THEN /\ HasPage(nOps, "main")
            /\ pages' = ClosePage(nOps, "main", pages)
            /\ IF IsLoggedIn(main.url)
               THEN Return(main, "ok", NoErr, NoErr)
               ELSE Propagates(main, "SessionExpired", "SessionExpired")
       ELSE /\ pages' = Abandon(nOps, "main", pages)
            /\ Propagates(main, "CallFailed", "CallFailed")
    /\ UNCHANGED <<unit, keepAlive, browser, nLaunched, alive, tasks, kills,
                   detached, nOps>>

\* -------------------------------------------------------------------- run
\* Variant: the fan-out is issued before the volunteering extraction.
PrimaryStepsFanOutEarly == <<"goto", "scroll", "profile">>

\* The awaits of run() on its primary page, in the order of the code.
PrimarySteps == <<"goto", "scroll", "profile", "volunteer">>

StepIndex(pc) == CHOOSE i \in 1..Len(PrimarySteps) : PrimarySteps[i] = pc

\* The three detail tasks start: each runs up to `await browser.newPage()`
\* inside createPage.
FanOut ==
    [k \in Kinds |-> [pc |-> "newPage", tb |-> browser, err |-> NoErr, cfg |-> 0]]

\* page.goto(profileUrl), autoScroll, getProfile or getVolunteering settles.
\* After getVolunteering the fan-out is issued and run() awaits Promise.all.
PrimaryStepDone(ok) ==
    /\ main.op = "run"
    /\ main.pc \in {PrimarySteps[i] : i \in 1..Len(PrimarySteps)}
    /\ IF ok
       THEN /\ HasPage(nOps, "main")
            /\ pages' = pages
            /\ IF StepIndex(main.pc) < Len(PrimarySteps)
               THEN /\ Goes([main EXCEPT
                               !.pc = PrimarySteps[StepIndex(main.pc) + 1],
                               !.done = Append(@, main.pc)])
                    /\ tasks' = tasks
               ELSE /\ Goes([main EXCEPT !.pc = "fanout",
                                         !.done = Append(@, main.pc)])
                    /\ tasks' = [tasks EXCEPT ![nOps] = FanOut]
       ELSE /\ Caught(main, "CallFailed")
            /\ pages' = Abandon(nOps, "main", pages)
            /\ tasks' = tasks
    /\ UNCHANGED <<unit, keepAlive, browser, nLaunched, alive, kills, detached, nOps>>

\* The page.close() of run()'s disposition settles (lines 500-511).
\* keepAlive: `await page.close()`, then the aggregate is returned.
\* otherwise: close(page): a failed page.close() rejects the close() promise,
\*   so run() goes to its catch block, while the body of close() goes on to
\*   `await this.browser.close()` on its own (detached).
RunClosePageDone(ok) ==
    /\ main.op = "run"
    /\ main.pc = "closePage"
    /\ IF ok
       THEN /\ HasPage(nOps, "main")
            /\ pages' = ClosePage(nOps, "main", pages)
            /\ detached' = detached
            /\ IF DisposeMode = "pageOnly"
               THEN Return(main, "ok", NoErr, NoErr)
               ELSE Goes([main EXCEPT !.pc = "browserClose", !.ctx = "success",
                                      !.tb = browser])
       ELSE /\ pages' = Abandon(nOps, "main", pages)
            /\ detached' = IF DisposeMode = "pageOnly" THEN detached
                           ELSE [detached EXCEPT ![browser] = @ + 1]
            /\ Caught(main, "CallFailed")
    /\ UNCHANGED <<unit, keepAlive, browser, nLaunched, alive, tasks, kills,
                   nOps>>

\* ----------------------------------------------- close() awaited by main
\* `await this.browser.close()` settles in a close() that main awaits: in the
\* catch of createPage (cp, after which createPage throws), in the catch of
\* setup/run (catch), in run's close(page) (success) or in a close() of the
\* user (caller).
BrowserCloseDone(ok) ==
    /\ main.pc = "browserClose"
    /\ CloseBrowserSettled(main.tb, ok, "fulfilled", pages)
    /\ LET m == [main EXCEPT !.term = TRUE]
           e == IF ok THEN main.err ELSE "CloseFailed"
       IN  CASE main.ctx = "cp" -> Propagates(m, e, main.err)
             [] main.ctx = "catch" -> Return(m, "fail", e, main.err)
             [] main.ctx = "success" ->
                    IF ok THEN Return(m, "ok", NoErr, NoErr) ELSE Caught(m, e)
             [] main.ctx = "caller" ->
                    Return(m, IF ok THEN "ok" ELSE "fail",
                           IF ok THEN NoErr ELSE e, IF ok THEN NoErr ELSE e)
    /\ UNCHANGED <<unit, keepAlive, browser, nLaunched, tasks, detached, nOps>>

\* `await this.browser.close()` settles in a close() body whose promise was
\* already rejected (nobody awaits it any more).
DetachedCloseDone(b, ok) ==
    /\ detached[b] > 0
    /\ detached' = [detached EXCEPT ![b] = @ - 1]
    /\ CloseBrowserSettled(b, ok, "rejected", pages)
    /\ UNCHANGED <<unit, keepAlive, browser, nLaunched, main, tasks, nOps,
                   last, expired, okRuns>>

\* The callback of treeKill(pid, "SIGKILL", cb) runs.  The close() promise it
\* would settle has settled before (state p), so resolve/reject are no-ops.
KillDone(b, p, ok) ==
    /\ <<b, p>> \in kills
    /\ kills' = kills \ {<<b, p>>}
    /\ IF ok
       THEN /\ alive' = [alive EXCEPT ![b] = FALSE]
            /\ pages' = Die(b, pages)
       ELSE UNCHANGED <<alive, pages>>
    /\ UNCHANGED <<unit, keepAlive, browser, nLaunched, main, tasks, detached,
                   nOps, last, expired, okRuns>>

\* ----------------------------------------------------------- detail tasks
\* getExperiences / getEducation / getSkills: createPage, goto, $$eval,
\* page.close, one step per await.  None of them has a try block of its own.

\* run n is suspended at `await Promise.all([...])`.
Awaited(n) == main.pc = "fanout" /\ nOps = n

\* A task goes on to its next await.
TaskMoves(n, k, t) ==
    /\ tasks' = [tasks EXCEPT ![n][k] = t]
    /\ UNCHANGED <<main, last, expired, okRuns>>

\* A task settles with t.pc = "ok" or "fail" and Promise.all reacts: it
\* rejects with the first rejection (run() enters its catch block while the
\* other tasks go on), and fulfils when the last task fulfils (run() goes on
\* to its disposition).  Once Promise.all has rejected, what the remaining
\* tasks settle with is dropped.
TaskSettles(n, k, t) ==
    IF Awaited(n)
    THEN /\ tasks' = [tasks EXCEPT ![n][k] = [t EXCEPT !.err = NoErr]]
         /\ IF t.pc = "fail"
            THEN Caught(main, t.err)
            ELSE IF AllFulfilled([tasks[n] EXCEPT ![k] = t])
                 THEN Dispose(main)
                 ELSE UNCHANGED <<main, last, expired, okRuns>>
    ELSE /\ tasks' = [tasks EXCEPT ![n][k] = IdleTask]
         /\ UNCHANGED <<main, last, expired, okRuns>>

\* The pages left open when task k of run n throws: its own, and the primary
\* page when this throw takes run() to its catch block (which closes no page).
TaskThrows(n, k, pg) ==
    IF Awaited(n) THEN Abandon(n, "main", Abandon(n, k, pg)) ELSE Abandon(n, k, pg)

TaskNewPageDone(n, k, ok) ==
    /\ tasks[n][k].pc = "newPage"
    /\ IF ok
       THEN /\ alive[tasks[n][k].tb]
            /\ pages' = pages \cup {[n |-> n, who |-> k, b |-> tasks[n][k].tb]}
            /\ TaskMoves(n, k, [tasks[n][k] EXCEPT !.pc = "configure", !.tb = 0,
                                                   !.cfg = 1])
       ELSE /\ pages' = pages
            /\ TaskMoves(n, k, [pc |-> "browserClose", tb |-> browser,
                                err |-> "CallFailed", cfg |-> 0])
    /\ UNCHANGED <<unit, keepAlive, browser, nLaunched, alive, kills, detached, nOps>>

\* One await of the configuration settles in the createPage of a task; after
\* the last one the task issues page.goto(profileUrl + "/details/...").
TaskConfigureDone(n, k, ok) ==
    /\ tasks[n][k].pc = "configure"
    /\ IF ok
       THEN /\ HasPage(n, k)
            /\ pages' = pages
            /\ IF tasks[n][k].cfg < Len(ConfigureSteps)
               THEN TaskMoves(n, k, [tasks[n][k] EXCEPT !.cfg = @ + 1])
               ELSE TaskMoves(n, k, [tasks[n][k] EXCEPT !.pc = "goto", !.cfg = 0])
       ELSE /\ pages' = Abandon(n, k, pages)
            /\ TaskMoves(n, k, [pc |-> "browserClose", tb |-> browser,
                                err |-> "CallFailed", cfg |-> 0])
    /\ UNCHANGED <<unit, keepAlive, browser, nLaunched, alive, kills, detached, nOps>>

\* `await this.browser.close()` settles in the close() of createPage's catch
\* block; createPage then throws and the task rejects.
TaskBrowserCloseDone(n, k, ok) ==
    /\ tasks[n][k].pc = "browserClose"
    /\ CloseBrowserSettled(tasks[n][k].tb, ok, "fulfilled",
                           IF Awaited(n) THEN Abandon(n, "main", pages) ELSE pages)
    /\ TaskSettles(n, k, [pc |-> "fail", tb |-> 0, cfg |-> 0,
                          err |-> IF ok THEN tasks[n][k].err ELSE "CloseFailed"])
    /\ UNCHANGED <<unit, keepAlive, browser, nLaunched, detached, nOps>>

\* page.goto(profileUrl + "/details/...") settles; on success page.$$eval
\* is issued.  A rejection is thrown by the task, its page left open.
TaskGotoDone(n, k, ok) ==
    /\ tasks[n][k].pc = "goto"
    /\ IF ok
       THEN /\ HasPage(n, k)
            /\ pages' = pages
            /\ TaskMoves(n, k, [tasks[n][k] EXCEPT !.pc = "eval"])
       ELSE /\ pages' = TaskThrows(n, k, pages)
            /\ TaskSettles(n, k, [pc |-> "fail", tb |-> 0, err |-> "CallFailed",
                                  cfg |-> 0])
    /\ UNCHANGED <<unit, keepAlive, browser, nLaunched, alive, kills, detached, nOps>>

\* page.$$eval(...) settles; on success `await page.close()` is issued.
TaskEvalDone(n, k, ok) ==
    /\ tasks[n][k].pc = "eval"
    /\ IF ok
       THEN /\ HasPage(n, k)
            /\ pages' = pages
            /\ TaskMoves(n, k, [tasks[n][k] EXCEPT !.pc = "closePage"])
       ELSE /\ pages' = TaskThrows(n, k, pages)
            /\ TaskSettles(n, k, [pc |-> "fail", tb |-> 0, err |-> "CallFailed",
                                  cfg |-> 0])
    /\ UNCHANGED <<unit, keepAlive, browser, nLaunched, alive, kills, detached, nOps>>

\* page.close() settles; the task returns its list.
TaskClosePageDone(n, k, ok) ==
    /\ tasks[n][k].pc = "closePage"
    /\ IF ok
       THEN /\ HasPage(n, k)
            /\ pages' = ClosePage(n, k, pages)
            /\ TaskSettles(n, k, [pc |-> "ok", tb |-> 0, err |-> NoErr,
                                  cfg |-> 0])
       ELSE /\ pages' = TaskThrows(n, k, pages)
            /\ TaskSettles(n, k, [pc |-> "fail", tb |-> 0, err |-> "CallFailed",
                                  cfg |-> 0])
    /\ UNCHANGED <<unit, keepAlive, browser, nLaunched, alive, kills, detached, nOps>>

\* ------------------------------------------------------------ specification
Next ==
    \/ CallSetup
    \/ \E url \in ProfileUrls : CallRun(url)
    \/ CallCheckIfLoggedIn
    \/ CallClose
    \/ \E ok \in BOOLEAN : LaunchDone(ok)
    \/ \E ok \in BOOLEAN : NewPageDone(ok)
    \/ \E ok \in BOOLEAN : ConfigureDone(ok)
    \/ \E ok \in BOOLEAN, url \in LandingUrls : LoginGotoDone(ok, url)
    \/ \E ok \in BOOLEAN : LoginClosePageDone(ok)
    \/ \E ok \in BOOLEAN : PrimaryStepDone(ok)
    \/ \E ok \in BOOLEAN : RunClosePageDone(ok)
    \/ \E ok \in BOOLEAN : BrowserCloseDone(ok)
    \/ \E b \in Browsers, ok \in BOOLEAN : DetachedCloseDone(b, ok)
    \/ \E b \in Browsers, p \in PromiseStates, ok \in BOOLEAN : KillDone(b, p, ok)
    \/ \E n \in Calls, k \in Kinds, ok \in BOOLEAN : TaskNewPageDone(n, k, ok)
    \/ \E n \in Calls, k \in Kinds, ok \in BOOLEAN : TaskConfigureDone(n, k, ok)
    \/ \E n \in Calls, k \in Kinds, ok \in BOOLEAN : TaskBrowserCloseDone(n, k, ok)
    \/ \E n \in Calls, k \in Kinds, ok \in BOOLEAN : TaskGotoDone(n, k, ok)
    \/ \E n \in Calls, k \in Kinds, ok \in BOOLEAN : TaskEvalDone(n, k, ok)
    \/ \E n \in Calls, k \in Kinds, ok \in BOOLEAN : TaskClosePageDone(n, k, ok)

Spec == Init /\ [][Next]_vars

\* ------------------------------------------------ functions applied alone
\* The functions below read no state of the session.  UnitSpec applies each
\* of them once to an input drawn from a bounded set and keeps input and
\* result in `unit`.

\* --- createPage: the handler installed with page.on("request", ...)
BlockedResources == {"image", "media", "font", "texttrack", "manifest"}

AllowedHostnames ==
    {"linkedin.com", "www.linkedin.com", "platform.linkedin.com",
     "realtime.www.linkedin.com"}

BlockedUrls == {"https://www.linkedin.com/li/track"}

\* Values of req.resourceType().
ResourceTypes ==
    BlockedResources
    \cup {"stylesheet", "script", "document", "xhr", "fetch", "other"}

\* getHostname (./utils) gave no hostname for the URL.
NoHostname == ""

\* Values of req.url() with what getHostname returns for each.
ReqTargets ==
    {[url |-> "https://www.linkedin.com/li/track",
      hostname |-> "www.linkedin.com"],
     [url |-> "https://www.linkedin.com/li/track?a=1",
      hostname |-> "www.linkedin.com"],
     [url |-> "https://www.linkedin.com/in/x", hostname |-> "www.linkedin.com"],
     [url |-> "https://linkedin.com/in/x", hostname |-> "linkedin.com"],
     [url |-> "https://platform.linkedin.com/a.js",
      hostname |-> "platform.linkedin.com"],
     [url |-> "https://realtime.www.linkedin.com/r",
      hostname |-> "realtime.www.linkedin.com"],
     [url |-> "https://media.linkedin.com/a.css",
      hostname |-> "media.linkedin.com"],
     [url |-> "https://static.licdn.com/a.css", hostname |-> "static.licdn.com"],
     [url |-> "https://ex.com/a.js", hostname |-> "ex.com"],
     [url |-> "blob:https://www.linkedin.com/0a1b", hostname |-> NoHostname]}

Requests ==
    {[type |-> ty, url |-> t.url, hostname |-> t.hostname] :
        ty \in ResourceTypes, t \in ReqTargets}

\* Variant: the hostname rule is applied to scripts only.
RequestHandlerScriptsOnly(r) ==
    IF r.type \in BlockedResources THEN <<"abort">>
    ELSE IF r.url \in BlockedUrls THEN <<"abort">>
    ELSE IF r.type = "script" /\ r.hostname # NoHostname
            /\ r.hostname \notin AllowedHostnames THEN <<"abort">>
    ELSE <<"continue">>

\* The calls the handler makes on the request, in order: each branch returns
\* with its call.
RequestHandler(r) ==
    IF r.type \in BlockedResources THEN <<"abort">>
    ELSE IF r.url \in BlockedUrls THEN <<"abort">>
    ELSE IF r.hostname # NoHostname /\ r.hostname \notin AllowedHostnames
         THEN <<"abort">>
    ELSE <<"continue">>

\* Nothing of the session changes while a function is applied alone.
SessionUnchanged ==
    UNCHANGED <<browser, nLaunched, alive, pages, main, tasks, kills,
                detached, nOps, last, expired, okRuns>>

\* A request is intercepted on a provisioned page.
OnRequest(r) ==
    /\ unit.f = "none"
    /\ unit' = [f |-> "request", in |-> r, out |-> RequestHandler(r)]
    /\ SessionUnchanged
    /\ UNCHANGED keepAlive

\* --- JavaScript values of the option fields
\* t is the type tag; b, n, s hold the value of a boolean, number, string.
\* "absent" is a property the caller's object does not have.
JsVal(t, b, n, s) == [t |-> t, b |-> b, n |-> n, s |-> s]

Absent == JsVal("absent", FALSE, 0, "")
Undefined == JsVal("undefined", FALSE, 0, "")
Null == JsVal("null", FALSE, 0, "")
Bool(b) == JsVal("boolean", b, 0, "")
Num(n) == JsVal("number", FALSE, n, "")
Str(s) == JsVal("string", FALSE, 0, s)

\* typeof x (reading an absent property gives undefined)
TypeOf(x) ==
    CASE x.t \in {"absent", "undefined"} -> "undefined"
      [] x.t = "null" -> "object"
      [] OTHER -> x.t

\* ToBoolean(x)
Truthy(x) ==
    CASE x.t = "boolean" -> x.b
      [] x.t = "number" -> x.n # 0
      [] x.t = "string" -> x.s # ""
      [] OTHER -> FALSE

\* x !== undefined
IsDefined(x) == x.t \notin {"absent", "undefined"}

\* --- constructor
OptionNames ==
    {"sessionCookieValue", "keepAlive", "timeout", "userAgent", "headless"}

\* The userAgent of the initializer of the options field.
DefaultUserAgent ==
    "Mozilla/5.0 (Windows NT 10.0; Win64; x64) AppleWebKit/537.36 (KHTML, like Gecko) Chrome/69.0.3497.100 Safari/537.36"

\* The initializer of the options field.
DefaultOptions ==
    [sessionCookieValue |-> Str(""), keepAlive |-> Bool(FALSE),
     timeout |-> Num(10000), userAgent |-> Str(DefaultUserAgent),
     headless |-> Bool(TRUE)]

\* userDefinedOptions objects given to the constructor.
TokenValues == {Absent, Undefined, Null, Str(""), Str("AQED"), Num(0), Num(7),
                Bool(TRUE)}
KeepAliveValues == {Absent, Undefined, Null, Bool(TRUE), Bool(FALSE), Str("yes")}
TimeoutValues == {Absent, Undefined, Num(0), Num(-1), Num(5000), Str("5000")}
UserAgentValues == {Absent, Null, Str(""), Str("UA/1"), Num(0), Num(7),
                    Bool(FALSE)}
HeadlessValues == {Absent, Bool(FALSE), Str("no")}

UserOptions ==
    [sessionCookieValue : TokenValues, keepAlive : KeepAliveValues,
     timeout : TimeoutValues, userAgent : UserAgentValues,
     headless : HeadlessValues]

\* Variant: only a missing sessionCookieValue is refused.
ConstructorErrorTokenPresence(o) ==
    IF ~IsDefined(o.sessionCookieValue) THEN "TokenRequired"
    ELSE IF TypeOf(o.sessionCookieValue) # "string" THEN "TokenNotString"
    ELSE IF Truthy(o.userAgent) /\ TypeOf(o.userAgent) # "string"
         THEN "UserAgentNotString"
    ELSE IF IsDefined(o.keepAlive) /\ TypeOf(o.keepAlive) # "boolean"
         THEN "KeepAliveNotBoolean"
    ELSE IF IsDefined(o.timeout) /\ TypeOf(o.timeout) # "number"
         THEN "TimeoutNotNumber"
    ELSE IF IsDefined(o.headless) /\ TypeOf(o.headless) # "boolean"
         THEN "HeadlessNotBoolean"
    ELSE NoErr

\* The checks of the constructor in the order of the code; NoErr when none
\* throws.
ConstructorError(o) ==
    IF ~Truthy(o.sessionCookieValue) THEN "TokenRequired"
    ELSE IF TypeOf(o.sessionCookieValue) # "string" THEN "TokenNotString"
    ELSE IF Truthy(o.userAgent) /\ TypeOf(o.userAgent) # "string"
         THEN "UserAgentNotString"
    ELSE IF IsDefined(o.keepAlive) /\ TypeOf(o.keepAlive) # "boolean"
         THEN "KeepAliveNotBoolean"
    ELSE IF IsDefined(o.timeout) /\ TypeOf(o.timeout) # "number"
         THEN "TimeoutNotNumber"
    ELSE IF IsDefined(o.headless) /\ TypeOf(o.headless) # "boolean"
         THEN "HeadlessNotBoolean"
    ELSE NoErr

\* Object.assign(this.options, userDefinedOptions): every property the
\* caller's object has is copied, an undefined one included.
ObjectAssign(target, o) ==
    [f \in OptionNames |-> IF o[f].t = "absent" THEN target[f] ELSE o[f]]

\* new LinkedInProfileScraper(o): throws, or yields an instance with its
\* options; this.browser is null either way.
Construct(o) ==
    /\ unit.f = "none"
    /\ browser = 0
    /\ LET e == ConstructorError(o)
           opts == ObjectAssign(DefaultOptions, o)
       IN  IF e # NoErr
           THEN /\ unit' = [f |-> "construct", in |-> o,
                            out |-> [instance |-> FALSE, err |-> e,
                                     options |-> DefaultOptions]]
                /\ keepAlive' = keepAlive
           ELSE /\ unit' = [f |-> "construct", in |-> o,
                            out |-> [instance |-> TRUE, err |-> NoErr,
                                     options |-> opts]]
                /\ keepAlive' = Truthy(opts.keepAlive)
    /\ SessionUnchanged

\* --- run: the guards in front of the try block
\* run(url) is called; `out` is the error thrown before the try block, or
\* NoErr when the try block is entered (createPage comes next).
RunGuards(url) ==
    /\ unit.f = "none"
    /\ unit' = [f |-> "guards", in |-> url, out |-> RunGuard(url)]
    /\ SessionUnchanged
    /\ UNCHANGED keepAlive

\* --- the options given to page.goto
Sites == {"login", "profile", "experience", "education", "skills"}

\* Values of this.options.timeout.
ConfiguredTimeouts == {Num(5000), Num(10000)}

\* The options object of the page.goto call for each site: checkIfLoggedIn
\* and run give waitUntil and timeout, the three detail tasks waitUntil only.
GotoOptions(site, timeout) ==
    IF site \in {"login", "profile"}
    THEN [waitUntil |-> "domcontentloaded", timeout |-> timeout]
    ELSE [waitUntil |-> "networkidle2", timeout |-> Absent]

\* A navigation to `site` is issued by an instance configured with `timeout`.
IssueGoto(site, timeout) ==
    /\ unit.f = "none"
    /\ unit' = [f |-> "goto", in |-> [site |-> site, timeout |-> timeout],
                out |-> GotoOptions(site, timeout)]
    /\ SessionUnchanged
    /\ UNCHANGED keepAlive

\* --- the fan-in of the three detail tasks
\* The promises handed to Promise.all, in the order of the array literal.
DetailTasks == <<"exp", "edu", "skills">>

\* The position of task k in that array.
SlotOf(k) == CHOOSE i \in 1..Len(DetailTasks) : DetailTasks[i] = k

\* The orders in which the three tasks can fulfil.
CompletionOrders ==
    {o \in [1..3 -> Kinds] : \A i, j \in 1..3 : o[i] = o[j] => i = j}

\* What a detail task resolves with: the array of the records it extracted.
ResultValues == {<<>>, <<"a">>, <<"b">>}

TaskResults == [Kinds -> ResultValues]

NoValues == [i \in 1..3 |-> "unset"]

\* Variant: each fulfilment is appended to the result array as it comes.
StoreByArrival(values, i, k, v) == [values EXCEPT ![i] = v]

\* Promise.all: the i-th fulfilment, of task k with value v, is stored at the
\* position task k has in the array given to Promise.all.
Store(values, i, k, v) == [values EXCEPT ![SlotOf(k)] = v]

\* Promise.all: the result array after the fulfilments i..3 of `order`.
RECURSIVE PromiseAll(_, _, _, _)
PromiseAll(order, r, i, values) ==
    IF i > Len(order)
    THEN values
    ELSE PromiseAll(order, r, i + 1, Store(values, i, order[i], r[order[i]]))

\* const [experiences, education, skills] = await Promise.all([...])
Destructure(values) ==
    [experiences |-> values[1], education |-> values[2], skills |-> values[3]]

\* The three tasks fulfil with the values r in the order `order`.
FanIn(order, r) ==
    /\ unit.f = "none"
    /\ unit' = [f |-> "fanin", in |-> [order |-> order, results |-> r],
                out |-> Destructure(PromiseAll(order, r, 1, NoValues))]
    /\ SessionUnchanged
    /\ UNCHANGED keepAlive

\* --- specification of the functions applied alone
\* The instance is fresh (this.browser null) or holds the browser of one
\* setup(); no call is in progress.
UnitInit ==
    /\ keepAlive = FALSE
    /\ browser \in {0, 1}
    /\ nLaunched = browser
    /\ alive = [b \in Browsers |-> b = browser]
    /\ pages = {}
    /\ main = IdleMain
    /\ tasks = [n \in Calls |-> [k \in Kinds |-> IdleTask]]
    /\ kills = {}
    /\ detached = [b \in Browsers |-> 0]
    /\ nOps = 0
    /\ last = NoCall
    /\ expired = FALSE
    /\ okRuns = 0
    /\ unit = NoUnit

UnitNext ==
    \/ \E r \in Requests : OnRequest(r)
    \/ \E o \in UserOptions : Construct(o)
    \/ \E url \in ProfileUrls : RunGuards(url)
    \/ \E site \in Sites, t \in ConfiguredTimeouts : IssueGoto(site, t)
    \/ \E order \in CompletionOrders, r \in TaskResults : FanIn(order, r)

UnitSpec == UnitInit /\ [][UnitNext]_vars

\* ------------------------------------------------------------- properties
\* A public call hands its outcome to the caller in this step.
Returns(op) ==
    /\ last'.op = op
    /\ last'.status \in {"ok", "fail"}
    /\ (last.status = "pending" \/ nOps' # nOps)

ReturnsOk(op) == Returns(op) /\ last'.status = "ok"

ReturnsFail(op) == Returns(op) /\ last'.status = "fail"

AliveBrowsers == {b \in Browsers : alive[b]}

\* Pages created during call n that are still open.
PagesOf(n) == {p \in pages : p.n = n}

\* C1 (as claimed): at most one browser process launched by the instance is
\* alive at any time, also when setup() is called more than once, and when
\* setup() returns successfully the instance holds exactly one live browser,
\* whose login check ended on a URL that does not end in /login.
C1_AtMostOneBrowser ==
    [][ /\ Cardinality(AliveBrowsers') <= 1
        /\ ReturnsOk("setup") =>
              /\ browser' # 0
              /\ AliveBrowsers' = {browser'}
              /\ ~EndsWith(main.url, LoginSuffix) ]_vars

\* C2: run() returns an aggregate only in a step taken after goto, scroll,
\* profile and volunteering extraction completed in this run and with all
\* three detail tasks of this run fulfilled; a run in which a detail task
\* rejected never returns an aggregate, whatever the other two produced.
C2_AllOrNothing ==
    [][ /\ ReturnsOk("run") =>
              /\ main.done = PrimarySteps
              /\ \A k \in Kinds : tasks'[nOps'][k].pc = "ok"
        /\ (Returns("run") /\ \E k \in Kinds : tasks'[nOps'][k].pc = "fail") =>
              last'.status = "fail" ]_vars

\* C2 witness: a run has thrown after one detail task rejected while the other
\* two had fulfilled.
C2_Witness ==
    /\ last.op = "run"
    /\ last.status = "fail"
    /\ \E k \in Kinds :
          /\ tasks[nOps][k].pc = "fail"
          /\ \A j \in Kinds \ {k} : tasks[nOps][j].pc = "ok"

\* C3 (as claimed): whenever run() fails on an instance that holds a browser,
\* whatever the failure, the error reaches the caller in the step in which
\* the browser.close() of a close() issued by run() settles.
C3_AnyFailureTerminates ==
    [][ (ReturnsFail("run") /\ browser # 0) =>
            (main.pc = "browserClose" /\ last'.term) ]_vars

\* C3 (amended): whenever run() fails with an error raised inside its try
\* block (any failure but the three validation errors), with keepAlive set or
\* not, the error reaches the caller only in the step in which the
\* browser.close() of the catch block's close() on this.browser settles, and
\* the browser process has exited unless that browser.close() itself rejected.
C3_FailuresInTryTerminate ==
    [][ (ReturnsFail("run") /\ last'.cause \notin ValidationErrors) =>
            /\ main.pc = "browserClose"
            /\ main.ctx = "catch"
            /\ main.tb = browser
            /\ last'.term
            /\ (last'.err # "CloseFailed" => ~alive'[browser]) ]_vars

\* C3 witness: with keepAlive set, a run failed on a puppeteer call and its
\* catch block closed the browser before the caller got the error.
C3_Witness ==
    /\ keepAlive
    /\ last.op = "run"
    /\ last.status = "fail"
    /\ last.cause = "CallFailed"
    /\ last.err = "CallFailed"
    /\ last.term
    /\ browser # 0
    /\ ~alive[browser]

\* C4: with keepAlive set, when run() returns its aggregate the browser is
\* still held and alive and no page created during that run is open; and no
\* step of a run() launches a browser or replaces this.browser.
C4_KeepAliveReuse ==
    [][ /\ (ReturnsOk("run") /\ keepAlive) =>
              /\ browser' # 0
              /\ alive'[browser']
              /\ PagesOf(nOps)' = {}
        /\ (main.op = "run" \/ main'.op = "run" \/ Returns("run")) =>
              (nLaunched' = nLaunched /\ browser' = browser) ]_vars

\* C4 witness: two runs returned an aggregate on the browser of a single
\* launch, which is still alive.
C4_Witness ==
    /\ keepAlive
    /\ okRuns = 2
    /\ nLaunched = 1
    /\ last.op = "run"
    /\ last.status = "ok"
    /\ alive[browser]
    /\ pages = {}

\* C5 (as claimed): with keepAlive unset, when run() returns its aggregate the
\* primary page is closed, the browser process has exited and no force-kill
\* of that process is still waiting for its callback.
C5_KilledBeforeReturn ==
    [][ (ReturnsOk("run") /\ ~keepAlive) =>
            /\ PagesOf(nOps)' = {}
            /\ ~alive'[browser]
            /\ \A p \in PromiseStates : <<browser, p>> \notin kills' ]_vars

\* C6 (as claimed): the login check, inside setup() or called by the user,
\* succeeds exactly when the landing URL does not end in /login and otherwise
\* throws SessionExpired; and when setup() throws because of SessionExpired
\* the process it launched has exited.
C6_VerdictFollowsUrl ==
    [][ /\ (main.op \in LoginOps /\ main.pc = "closePage" /\ main' # main) =>
              \/ /\ ~EndsWith(main.url, LoginSuffix)
                 /\ last'.status = "ok"
                 /\ Returns(main.op)
              \/ /\ EndsWith(main.url, LoginSuffix)
                 /\ \/ main'.err = "SessionExpired"
                    \/ last'.err = "SessionExpired" /\ Returns("checkIfLoggedIn")
        /\ (ReturnsFail("setup") /\ last'.cause = "SessionExpired") =>
              ~alive'[nLaunched] ]_vars

\* C6 (amended): when the login check's page.close() is done, either it
\* rejected and the check fails with that rejection whatever the URL, or
\* the check succeeds exactly when the landing URL does not end in /login and
\* throws SessionExpired otherwise (to the caller when the caller called
\* checkIfLoggedIn, the browser left as it is); and when SessionExpired is
\* thrown inside setup(), setup() throws only in the step in which the
\* browser.close() of close() on the browser it launched settles, the process
\* having exited whenever SessionExpired is the error setup() throws.
C6_VerdictAfterPageClose ==
    [][ /\ (main.op = "setup" /\ main.pc = "closePage" /\ main' # main) =>
              \/ /\ main'.pc = "browserClose"
                 /\ main'.err = "CallFailed"
              \/ /\ ~EndsWith(main.url, LoginSuffix)
                 /\ ReturnsOk("setup")
              \/ /\ EndsWith(main.url, LoginSuffix)
                 /\ main'.pc = "browserClose"
                 /\ main'.ctx = "catch"
                 /\ main'.err = "SessionExpired"
                 /\ main'.tb = nLaunched
        /\ (main.op = "checkIfLoggedIn" /\ main.pc = "closePage"
            /\ main' # main) =>
              /\ Returns("checkIfLoggedIn")
              /\ UNCHANGED <<alive, kills, browser>>
              /\ \/ last'.err = "CallFailed"
                 \/ /\ ~EndsWith(main.url, LoginSuffix)
                    /\ last'.status = "ok"
                 \/ /\ EndsWith(main.url, LoginSuffix)
                    /\ last'.status = "fail"
                    /\ last'.err = "SessionExpired"
        /\ (ReturnsFail("setup") /\ last'.cause = "SessionExpired") =>
              /\ main.pc = "browserClose"
              /\ main.tb = nLaunched
              /\ last'.term
              /\ (last'.err = "SessionExpired" => ~alive'[nLaunched]) ]_vars

\* C6 witness: setup() has thrown SessionExpired and the browser it launched
\* is gone.
C6_Witness ==
    /\ last.op = "setup"
    /\ last.status = "fail"
    /\ last.err = "SessionExpired"
    /\ last.term
    /\ browser = nLaunched
    /\ browser # 0
    /\ ~alive[browser]

\* C7 (as claimed): once a setup() of the instance has thrown SessionExpired,
\* every run() that returns afterwards fails, and no step of a run() launches
\* a browser.
C7_RunFailsAfterExpiry ==
    [][ /\ (expired /\ Returns("run")) => last'.status = "fail"
        /\ (main.op = "run" \/ Returns("run")) => nLaunched' = nLaunched ]_vars

\* C8 (as claimed): whenever the browser.close() of a close() awaited by a
\* public call has settled, successfully or not, and the browser has a
\* process id, a force-kill of that process has been issued.
C8_KillAlwaysAttempted ==
    [][ (main.pc = "browserClose" /\ main' # main /\ HasPid(browser)) =>
            \E p \in PromiseStates : <<browser, p>> \in kills' ]_vars

\* C9 (as claimed): close() does not report success to its caller while the
\* force-kill it issued is still waiting for its callback.
C9_ResolvesAfterKill ==
    (last.op = "close" /\ last.status = "ok") =>
        \A b \in Browsers : <<b, "fulfilled">> \notin kills

\* C10 (as claimed): close() called on an instance whose browser has been
\* closed returns at once without error: it awaits no further browser.close()
\* and changes neither this.browser nor the pending kills.
C10_SecondCloseIsNoOp ==
    [][ (/\ main.pc = "idle"
         /\ nOps' = nOps + 1
         /\ (main'.op = "close" \/ Returns("close"))
         /\ browser # 0
         /\ ~alive[browser]) =>
            /\ ReturnsOk("close")
            /\ main'.pc = "idle"
            /\ kills' = kills
            /\ browser' = browser ]_vars

\* The host of a URL written without its scheme: what precedes the first "/".
HostOf(url) ==
    IF \E i \in 1..Len(url) : url[i] = "/"
    THEN SubSeq(url, 1, (CHOOSE i \in 1..Len(url) :
                            /\ url[i] = "/"
                            /\ \A j \in 1..(i - 1) : url[j] # "/") - 1)
    ELSE url

\* linkedin.com or one of its subdomains.
IsLinkedinHost(h) ==
    \/ h = <<"l", "i", "n", "k", "e", "d", "i", "n", ".", "c", "o", "m">>
    \/ EndsWith(h, <<".", "l", "i", "n", "k", "e", "d", "i", "n", ".", "c", "o", "m">>)

\* C11 (as claimed): an intercepted request gets exactly one decision: abort
\* for a blocked resource type, else abort for the denylisted URL, else abort
\* when its hostname is not one of the four allowlisted ones, else continue.
C11_DecisionChain ==
    unit.f = "request" =>
        unit.out =
            IF unit.in.type \in {"image", "media", "font", "texttrack", "manifest"}
            THEN <<"abort">>
            ELSE IF unit.in.url = "https://www.linkedin.com/li/track"
            THEN <<"abort">>
            ELSE IF unit.in.hostname \notin
                      {"linkedin.com", "www.linkedin.com",
                       "platform.linkedin.com", "realtime.www.linkedin.com"}
            THEN <<"abort">>
            ELSE <<"continue">>

\* C11 (amended): an intercepted request gets exactly one decision: abort for
\* a blocked resource type, else abort when its URL is the denylisted URL,
\* else abort when a hostname was obtained for its URL and that hostname is
\* not one of the four allowlisted ones, else continue; a request for which
\* no hostname was obtained is continued.
C11_DecisionChainHostKnown ==
    unit.f = "request" =>
        unit.out =
            IF unit.in.type \in {"image", "media", "font", "texttrack", "manifest"}
            THEN <<"abort">>
            ELSE IF unit.in.url = "https://www.linkedin.com/li/track"
            THEN <<"abort">>
            ELSE IF /\ unit.in.hostname # ""
                    /\ unit.in.hostname \notin
                          {"linkedin.com", "www.linkedin.com",
                           "platform.linkedin.com", "realtime.www.linkedin.com"}
            THEN <<"abort">>
            ELSE <<"continue">>

\* C11 witness: a stylesheet addressed to a host outside the allowlist went
\* through the three tests and was aborted by the last one.
C11_Witness ==
    /\ unit.f = "request"
    /\ unit.in.type = "stylesheet"
    /\ unit.in.hostname = "ex.com"
    /\ unit.out = <<"abort">>

\* C12 (as claimed): a request of resource type stylesheet, its URL not being
\* the denylisted one, is never aborted, whatever host it is addressed to.
C12_StylesheetNeverAborted ==
    (/\ unit.f = "request"
     /\ unit.in.type = "stylesheet"
     /\ unit.in.url # "https://www.linkedin.com/li/track") =>
        unit.out = <<"continue">>

\* C13 (as claimed): run(profileUrl) on an instance holding a browser throws
\* a validation error before the try block, no page created, whenever
\* profileUrl is empty or its host is not a linkedin.com host.
C13_ForeignHostRejected ==
    (/\ unit.f = "guards"
     /\ browser # 0
     /\ (unit.in = <<>> \/ ~IsLinkedinHost(HostOf(unit.in)))) =>
        /\ unit.out \in {"NoProfileUrl", "NotLinkedinUrl"}
        /\ pages = {}

\* C14 (as claimed): every page.goto the scraper issues (login check, primary
\* profile page, the three detail pages) carries the configured timeout.
C14_EveryGotoHasTimeout ==
    unit.f = "goto" => unit.out.timeout = unit.in.timeout

\* C15: when the session token is missing (absent, undefined, null) or the
\* empty string, the constructor throws its configuration error, no instance
\* exists, and no browser has been launched.
C15_TokenRequired ==
    (/\ unit.f = "construct"
     /\ \/ unit.in.sessionCookieValue.t \in {"absent", "undefined", "null"}
        \/ unit.in.sessionCookieValue = Str("")) =>
        /\ ~unit.out.instance
        /\ unit.out.err = "TokenRequired"
        /\ browser = 0
        /\ nLaunched = 0

\* C15 witness: the constructor was given an empty token and threw.
C15_Witness ==
    /\ unit.f = "construct"
    /\ unit.in.sessionCookieValue = Str("")
    /\ unit.in.keepAlive = Bool(TRUE)
    /\ ~unit.out.instance

\* C16 (as claimed): every constructed instance holds a non-empty string
\* token, a string user agent, boolean keepAlive and headless, and a number
\* timeout greater than 0.
C16_WellTypedOptions ==
    (unit.f = "construct" /\ unit.out.instance) =>
        /\ unit.out.options.sessionCookieValue.t = "string"
        /\ unit.out.options.sessionCookieValue.s # ""
        /\ unit.out.options.userAgent.t = "string"
        /\ unit.out.options.keepAlive.t = "boolean"
        /\ unit.out.options.headless.t = "boolean"
        /\ unit.out.options.timeout.t = "number"
        /\ unit.out.options.timeout.n > 0

\* Some browser launched by the instance has been closed by close().
Terminated == \E b \in 1..nLaunched : ~alive[b]

\* C17 (as claimed): once close() has closed a browser of the instance, no
\* run() on the instance returns an aggregate any more, whatever was called
\* in between, setup() included.
C17_NoReuseAfterTermination ==
    [][ (Terminated /\ Returns("run")) => last'.status = "fail" ]_vars

\* C18: goto, scroll, profile and volunteering extraction complete in that
\* order, and a detail task of the run in progress has started (it is in
\* createPage or beyond, or holds a page) only after all four completed.
C18_PrimaryBeforeFanOut ==
    /\ \E i \in 0..4 :
          main.done = SubSeq(<<"goto", "scroll", "profile", "volunteer">>, 1, i)
    /\ \A n \in Calls, k \in Kinds :
          /\ n > nOps => tasks[n][k].pc = "idle"
          /\ (/\ n = nOps
              /\ main.op = "run"
              /\ \/ tasks[n][k].pc # "idle"
                 \/ \E p \in pages : p.n = n /\ p.who = k) =>
                main.done = <<"goto", "scroll", "profile", "volunteer">>

\* C18 witness: the run is at Promise.all and a detail task holds its page.
C18_Witness ==
    /\ main.op = "run"
    /\ main.pc = "fanout"
    /\ main.done = <<"goto", "scroll", "profile", "volunteer">>
    /\ \E p \in pages : p.n = nOps /\ p.who = "edu"

\* browser.close() calls in progress on browser b, over all close() bodies.
ClosesInProgress(b) ==
    (IF main.pc = "browserClose" /\ main.tb = b THEN 1 ELSE 0)
    + Cardinality({x \in Calls \X Kinds :
                      /\ tasks[x[1]][x[2]].pc = "browserClose"
                      /\ tasks[x[1]][x[2]].tb = b})
    + detached[b]

\* C19 (as claimed): at no time are two close() invocations in progress on
\* the same browser, nor a launch together with a close().
C19_CloseSerialized ==
    \A b \in Browsers :
        /\ ClosesInProgress(b) <= 1
        /\ main.pc = "launch" => ClosesInProgress(b) = 0

\* C20 (as claimed): run() or checkIfLoggedIn() called on an instance whose
\* browser has been closed fails without asking the browser for a new page.
C20_NoPageOnTerminated ==
    [][ (/\ main.pc = "idle"
         /\ nOps' = nOps + 1
         /\ \/ main'.op \in {"run", "checkIfLoggedIn"}
            \/ Returns("run")
            \/ Returns("checkIfLoggedIn")
         /\ browser # 0
         /\ ~alive[browser]) => main'.pc # "newPage" ]_vars

\* C21: when an await of the configuration of a new page settles, createPage
\* goes on to the next one, or returns the page, every step having succeeded,
\* or calls close() on the held browser; it throws only in the step in which
\* the browser.close() of that close() settles, and never hands a page to its
\* caller on that path.  The same holds for createPage called by a detail
\* task.
C21_ProvisionFailureTerminates ==
    [][ /\ main.pc = "configure" =>
              \/ main' = main
              \/ /\ main'.pc = "configure"
                 /\ main'.cfg = main.cfg + 1
                 /\ \E p \in pages' : p.n = nOps /\ p.who = "main"
              \/ /\ main'.pc = "goto"
                 /\ main.cfg = Len(ConfigureSteps)
                 /\ \E p \in pages' : p.n = nOps /\ p.who = "main"
              \/ /\ main'.pc = "browserClose"
                 /\ main'.ctx = "cp"
                 /\ main'.tb = browser
                 /\ ~\E p \in pages' : p.n = nOps /\ p.who = "main"
        /\ (main.pc = "browserClose" /\ main.ctx = "cp") =>
              \/ main' = main
              \/ /\ main'.pc = "browserClose"
                 /\ main'.ctx = "catch"
                 /\ main'.term
              \/ /\ ReturnsFail("checkIfLoggedIn")
                 /\ last'.term
        /\ \A n \in 1..nOps, k \in Kinds :
              /\ tasks[n][k].pc = "configure" =>
                    \/ tasks'[n][k] = tasks[n][k]
                    \/ /\ tasks'[n][k].pc = "configure"
                       /\ tasks'[n][k].cfg = tasks[n][k].cfg + 1
                    \/ /\ tasks'[n][k].pc = "goto"
                       /\ tasks[n][k].cfg = Len(ConfigureSteps)
                    \/ /\ tasks'[n][k].pc = "browserClose"
                       /\ tasks'[n][k].tb = browser
                       /\ ~\E p \in pages' : p.n = n /\ p.who = k
              /\ tasks[n][k].pc = "browserClose" =>
                    \/ tasks'[n][k] = tasks[n][k]
                    \/ tasks'[n][k].pc \in {"fail", "idle"} ]_vars

\* C21 witness: a configuration step of run()'s primary page failed and
\* createPage is in close(), the half-configured page still open.
C21_Witness ==
    /\ main.op = "run"
    /\ main.pc = "browserClose"
    /\ main.ctx = "cp"
    /\ main.err = "CallFailed"
    /\ \E p \in pages : p.n = nOps /\ p.who = "nobody"

\* C22 (as claimed): on every exit of checkIfLoggedIn, by return or by throw,
\* the page it opened has been closed: after the step in which it leaves its
\* navigation or its page.close(), no page of the call is open, unless the
\* failure is that of page.close() itself.
C22_LoginPageAlwaysClosed ==
    [][ /\ (main.op \in LoginOps /\ main.pc = "goto" /\ main' # main) =>
              \/ main'.pc = "closePage"
              \/ PagesOf(nOps)' = {}
        /\ (main.op \in LoginOps /\ main.pc = "closePage" /\ main' # main) =>
              \/ PagesOf(nOps)' = {}
              \/ main'.err = "CallFailed"
              \/ last'.err = "CallFailed" ]_vars

\* C23 (as claimed): when run() has returned or thrown from inside its try
\* block, no page created during that run is open any more.
C23_NoPageOutlivesRun ==
    (/\ main.pc = "idle"
     /\ last.op = "run"
     /\ last.status \in {"ok", "fail"}
     /\ last.cause \notin ValidationErrors) => PagesOf(nOps) = {}

\* C24: whatever the order in which the three detail tasks fulfil, the
\* aggregate's experiences is what the experience task resolved with,
\* education what the education task resolved with and skills what the
\* skills task resolved with.
C24_SlotsIndependentOfOrder ==
    unit.f = "fanin" =>
        /\ unit.out.experiences = unit.in.results["exp"]
        /\ unit.out.education = unit.in.results["edu"]
        /\ unit.out.skills = unit.in.results["skills"]

\* C24 witness: the tasks fulfilled in the reverse of the array order with
\* three different values, and each field holds its own task's value.
C24_Witness ==
    /\ unit.f = "fanin"
    /\ unit.in.order = <<"skills", "edu", "exp">>
    /\ unit.in.results = [k \in Kinds |->
                            CASE k = "exp" -> <<"a">>
                              [] k = "edu" -> <<"b">>
                              [] OTHER -> <<>>]
    /\ unit.out = [experiences |-> <<"a">>, education |-> <<"b">>,
                   skills |-> <<>>]

\* C25 (as claimed): when setup(), run() or the createPage of a
\* checkIfLoggedIn() failed and its catch block called close(), the error the
\* caller receives is the one the catch block caught, also when close()
\* itself failed.
C25_OriginalErrorDelivered ==
    (/\ last.op \in {"setup", "run", "checkIfLoggedIn"}
     /\ last.status = "fail"
     /\ last.term) => last.err = last.cause

\* C26: a run() refused for its URL (empty, or without "linkedin.com/")
\* rejects in the step of the call and leaves the session as it was: close()
\* is not called, no browser is launched, closed or killed, no page is
\* created or closed, and this.browser is unchanged.
C26_RefusedRunLeavesSession ==
    [][ (Returns("run") /\ UrlRejected(last')) =>
            /\ nOps' = nOps + 1
            /\ main' = IdleMain
            /\ ~last'.term
            /\ last'.err = last'.cause
            /\ browser' = browser
            /\ browser' # 0
            /\ UNCHANGED <<nLaunched, alive, pages, kills, detached>> ]_vars

\* C26 witness: a run() returned an aggregate, the call before it on the
\* same instance being a run() refused for its URL.
C26_Witness ==
    /\ last.op = "run"
    /\ last.status = "ok"
    /\ last.after

====
